---- MODULE Spec2Model ----
(***************************************************************************)
(* Boot information abstraction layer of the Utopia kernel.                *)
(*                                                                         *)
(* Two specifications share one set of variables:                          *)
(*   Spec     the entry dispatch of the three builds (bootloader_api,      *)
(*            limine, multiboot2): bootloader hand-off, entry function,    *)
(*            kernel initialisation, main loop and panic handlers;         *)
(*   SpecApi  the five BootInfo accessors applied to an adapter, the       *)
(*            tagged-stream walk for_each_tag taken one iteration at a     *)
(*            time.                                                        *)
(*                                                                         *)
(* Fixed-width integers are sequences of 16-bit limbs, most significant    *)
(* first: a u32 has two limbs, a u64/usize four.                           *)
(***************************************************************************)
EXTENDS Integers, Sequences, FiniteSets, TLC

VARIABLES
    feature,      \* cargo feature of the build: which entry point exists
    pc,           \* control point of the kernel (or of the accessor call)
    dispatch,     \* entry dispatch state: Entered / HandedOffToKernelInit
    magic,        \* multiboot2: magic word handed to _start_multiboot2
    architecture, \* multiboot2: architecture the loader hands the kernel off for
    info_ptr,     \* multiboot2: address of the blob
    mem,          \* multiboot2: boot memory from info_ptr on, 8 bytes a slot
    requests,     \* limine: response pointer of the three request records
    seen,         \* limine: response pointers as read by parse_limine_info
    boot_info,    \* bootloader_api: the BootInfo structure handed over
    adapter,      \* the constructed adapter, None before construction
    serial_init,  \* init_serial_early has run
    out,          \* diagnostics written so far
    logger_set,   \* logging::init has installed the logger
    panic_info,   \* message of the panic! being handled, None if none
    reads,        \* byte offsets read through info_ptr
    call,         \* accessor being executed / last executed
    want,         \* get_tag: tag type looked for
    offset,       \* for_each_tag: cursor
    found,        \* get_tag: result so far
    visited,      \* for_each_tag: offsets the visitor was invoked on
    ret           \* value returned by the last accessor call

vars == <<feature, pc, dispatch, magic, architecture, info_ptr, mem, requests, seen,
          boot_info, adapter, serial_init, out, logger_set, panic_info,
          reads, call, want, offset, found, visited, ret>>

bootVars == <<feature, magic, architecture, info_ptr, mem, requests, boot_info>>
apiVars == <<call, want, offset, found, visited, ret>>

----------------------------------------------------------------------------
(* Bounds of the model *)

MaxTags == 3        \* tags laid out in a blob

----------------------------------------------------------------------------
(* Option / raw pointer values *)

None == <<>>
Some(x) == <<x>>
NULL == <<>>
Ptr(x) == <<x>>
Deref(p) == p[1]

----------------------------------------------------------------------------
(* Fixed-width unsigned integers *)

Half == 65536

U32(n) == <<n \div Half, n % Half>>
U64(n) == <<0, 0, n \div Half, n % Half>>

\* `x as usize` / `x as u64` of a u32
AsUsize(w) == <<0, 0>> \o w

\* value of a number whose upper limbs are zero
ToNat(a) == a[Len(a) - 1] * Half + a[Len(a)]
IsSmall(a) == /\ \A i \in 1..(Len(a) - 2) : a[i] = 0
              /\ a[Len(a) - 1] < 16384

RECURSIVE AddFrom(_, _, _, _)
AddFrom(a, b, i, c) ==
    IF i = 0 THEN [carry |-> c, limbs |-> <<>>]
    ELSE LET t == a[i] + b[i] + c
             rest == AddFrom(a, b, i - 1, t \div Half)
         IN [carry |-> rest.carry, limbs |-> Append(rest.limbs, t % Half)]

\* a + b at the width of a: the wrapped sum and whether it overflowed
AddLimbs(a, b) == AddFrom(a, b, Len(a), 0)

RECURSIVE DivFrom(_, _, _)
DivFrom(a, d, r) ==
    IF a = <<>> THEN <<>>
    ELSE LET cur == r * Half + Head(a)
         IN <<cur \div d>> \o DivFrom(Tail(a), d, cur % d)

\* a / d for a divisor 0 < d < 2^15
DivLimbs(a, d) == DivFrom(a, d, 0)

RECURSIVE MulFrom(_, _, _, _)
MulFrom(a, k, i, c) ==
    IF i = 0 THEN <<>>
    ELSE LET t == a[i] * k + c
         IN Append(MulFrom(a, k, i - 1, t \div Half), t % Half)

\* a * k at the width of a, for a factor k < 2^15 (wrapping)
MulLimbs(a, k) == MulFrom(a, k, Len(a), 0)

RECURSIVE LessFrom(_, _, _)
LessFrom(a, b, i) ==
    IF i > Len(a) THEN FALSE
    ELSE IF a[i] # b[i] THEN a[i] < b[i]
    ELSE LessFrom(a, b, i + 1)

Less(a, b) == LessFrom(a, b, 1)
GreaterEq(a, b) == ~Less(a, b)

----------------------------------------------------------------------------
(* Shared record model: boot_info.rs *)

PixelFormat == {"Rgb", "Bgr", "U8", "Unknown"}

\* the value an accessor leaves behind when it panics instead of returning
Panicked(msg) == <<"panic", msg>>
IsPanic(r) == Len(r) = 2

----------------------------------------------------------------------------
(* Handshake protocol: request and response records (limine_entry.rs) *)

\* (pitch, width, bpp) a bootloader reports: a row of `width` pixels fits
\* in `pitch` bytes
LimineGeometry ==
    { <<4096, 1024, 32>>, <<304, 100, 24>>, <<160, 80, 15>>, <<0, 0, 0>> }

LimineFramebuffer ==
    { [address |-> 753664, width |-> g[2], height |-> 25, pitch |-> g[1],
       bpp |-> g[3], memory_model |-> mm, red_mask_size |-> sz,
       red_mask_shift |-> sh] :
         g \in LimineGeometry, mm \in {0, 1}, sz \in {5, 8}, sh \in {0, 8, 16} }

OtherFramebuffer ==
    [address |-> 917504, width |-> 640, height |-> 480, pitch |-> 2560,
     bpp |-> 32, memory_model |-> 1, red_mask_size |-> 8, red_mask_shift |-> 16]

\* what the bootloader may store in FRAMEBUFFER_REQUEST.response
LimineFramebufferResponse ==
    { Ptr([framebuffer_count |-> 0, framebuffers |-> NULL]),
      Ptr([framebuffer_count |-> 0, framebuffers |-> Ptr(<<Ptr(OtherFramebuffer)>>)]),
      Ptr([framebuffer_count |-> 1, framebuffers |-> NULL]),
      Ptr([framebuffer_count |-> 1, framebuffers |-> Ptr(<<NULL>>)]),
      Ptr([framebuffer_count |-> 2,
           framebuffers |-> Ptr(<<NULL, Ptr(OtherFramebuffer)>>)]) }
    \cup { Ptr([framebuffer_count |-> 1, framebuffers |-> Ptr(<<Ptr(fb)>>)]) :
             fb \in LimineFramebuffer }
    \cup { Ptr([framebuffer_count |-> 2,
                framebuffers |-> Ptr(<<Ptr(fb), Ptr(OtherFramebuffer)>>)]) :
             fb \in { f \in LimineFramebuffer : f.bpp = 32 /\ f.red_mask_size = 8 } }

\* what the bootloader may store in RSDP_REQUEST.response (address 0 = null)
LimineRsdpResponse == { Ptr([address |-> 0]), Ptr([address |-> 983040]) }

LimineMemmapResponse == { Ptr([entry_count |-> 0]) }

ResponseOf(req) ==
    CASE req = "framebuffer" -> LimineFramebufferResponse
      [] req = "rsdp" -> LimineRsdpResponse
      [] req = "memmap" -> LimineMemmapResponse

\* LimineRequest::new: the response pointer starts as null
LimineRequest == [framebuffer |-> NULL, memmap |-> NULL, rsdp |-> NULL]

\* A read of the response field of a request static.  The statics are
\* immutable and are read with plain loads, so the build may use the
\* link-time value (null) in place of the value in memory.
ReadResponse(req) == { requests[req], NULL }

\* mutant: framebuffer_count is not looked at
parse_limine_info_NoCount(fb_response, rsdp_response) ==
    LET framebuffer ==
            IF fb_response # NULL
            THEN LET response == Deref(fb_response)
                 IN IF response.framebuffers # NULL
                    THEN LET fb_ptr == Deref(response.framebuffers)[1]
                         IN IF fb_ptr # NULL THEN Some(Deref(fb_ptr)) ELSE None
                    ELSE None
            ELSE None
        rsdp ==
            IF rsdp_response # NULL
            THEN LET response == Deref(rsdp_response)
                 IN IF response.address # 0 THEN Some(response.address) ELSE None
            ELSE None
    IN [kind |-> "limine_entry::LimineBootInfo",
        framebuffer |-> framebuffer, rsdp |-> rsdp]

\* parse_limine_info, on the response pointers it has read
parse_limine_info(fb_response, rsdp_response) ==
    LET framebuffer ==
            IF fb_response # NULL
            THEN LET response == Deref(fb_response)
                 IN IF response.framebuffer_count > 0 /\ response.framebuffers # NULL
                    THEN LET fb_ptr == Deref(response.framebuffers)[1]
                         IN IF fb_ptr # NULL THEN Some(Deref(fb_ptr)) ELSE None
                    ELSE None
            ELSE None
        rsdp ==
            IF rsdp_response # NULL
            THEN LET response == Deref(rsdp_response)
                 IN IF response.address # 0 THEN Some(response.address) ELSE None
            ELSE None
    IN [kind |-> "limine_entry::LimineBootInfo",
        framebuffer |-> framebuffer, rsdp |-> rsdp]

\* limine_entry.rs: pixel format of a framebuffer record
LimineEntryPixelFormat(fb) ==
    IF fb.memory_model = 1
    THEN IF fb.red_mask_shift = 16 THEN "Rgb" ELSE "Bgr"
    ELSE "Unknown"

\* boot_info.rs: pixel format of a framebuffer record
BootInfoPixelFormat(fb) ==
    IF fb.memory_model = 1 /\ fb.red_mask_size = 8 /\ fb.red_mask_shift = 16
    THEN "Rgb"
    ELSE IF fb.memory_model = 1 /\ fb.red_mask_size = 8 /\ fb.red_mask_shift = 0
    THEN "Bgr"
    ELSE "Unknown"

\* the FrameBufferInfo both handshake adapters build around the pixel format
LimineFrameBufferInfo(fb, pixel_format) ==
    LET bytes_per_pixel == (fb.bpp + 7) \div 8
    IN IF bytes_per_pixel = 0
       THEN Panicked("attempt to divide by zero")
       ELSE Some([width |-> U64(fb.width),
                  height |-> U64(fb.height),
                  stride |-> DivLimbs(U64(fb.pitch), bytes_per_pixel),
                  pixel_format |-> pixel_format,
                  bytes_per_pixel |-> bytes_per_pixel,
                  physical_address |-> U64(fb.address)])

\* impl BootInfo for limine_entry::LimineBootInfo
LimineEntry_framebuffer_info(a) ==
    IF a.framebuffer = None THEN None
    ELSE LET fb == a.framebuffer[1]
         IN LimineFrameBufferInfo(fb, LimineEntryPixelFormat(fb))

LimineEntry_framebuffer_address(a) ==
    IF a.framebuffer = None THEN None ELSE Some(U64(a.framebuffer[1].address))

\* mutant: a missing RSDP is reported as address 0
LimineEntry_rsdp_address_Default(a) ==
    IF a.rsdp = None THEN Some(U64(0)) ELSE Some(U64(a.rsdp[1]))

LimineEntry_rsdp_address(a) ==
    IF a.rsdp = None THEN None ELSE Some(U64(a.rsdp[1]))

\* impl boot_info::LimineBootInfo, reached through BootInfoWrapper::Limine
BootInfoLimine_framebuffer_info(a) ==
    IF a.framebuffer = None THEN None
    ELSE LET fb == a.framebuffer[1]
         IN LimineFrameBufferInfo(fb, BootInfoPixelFormat(fb))

BootInfoLimine_framebuffer_address(a) ==
    IF a.framebuffer = None THEN None ELSE Some(U64(a.framebuffer[1].address))

BootInfoLimine_rsdp_address(a) ==
    IF a.rsdp = None THEN None ELSE Some(U64(a.rsdp[1]))

----------------------------------------------------------------------------
(* Tagged-stream protocol: boot memory (multiboot2.rs) *)

\* TagType
TagEnd == 0
TagCommandLine == 1
TagFramebufferInfo == 8
TagAcpiOldRsdp == 14
TagAcpiNewRsdp == 15

\* magic word a Multiboot 2 loader passes to the entry point
MULTIBOOT2_BOOTLOADER_MAGIC == 920085129

\* architecture field of MULTIBOOT2_HEADER: i386
MULTIBOOT2_ARCHITECTURE_I386 == 0

\* eight bytes of boot memory: two little-endian u32 words
Slot(a, b) == <<U32(a), U32(b)>>

\* FramebufferTag laid out in memory: header, addr, pitch|width,
\* height|bpp,framebuffer_type,reserved
FramebufferTagSlots(size, addr, pitch, width, height, bpp, fbtype) ==
    << Slot(TagFramebufferInfo, size), Slot(addr, 0), Slot(pitch, width),
       Slot(height, bpp + 256 * fbtype) >>

\* the tags a loader may lay out, each with its payload
TagTemplates ==
    { << Slot(TagEnd, 8) >>,
      << Slot(TagAcpiOldRsdp, 21), Slot(0, 0), Slot(0, 0) >>,
      << Slot(TagAcpiNewRsdp, 16), Slot(0, 0) >>,
      FramebufferTagSlots(32, 753664, 160, 80, 25, 8, 0),
      FramebufferTagSlots(32, 753664, 40, 80, 25, 4, 0),
      \* a framebuffer tag that declares 16 bytes: its fields spill over
      << Slot(TagFramebufferInfo, 16), Slot(917504, 0) >>,
      \* malformed sizes: 0, 0xFFFFFFF8 and 0xFFFFFFFF
      << Slot(TagCommandLine, 0) >>,
      << << U32(TagCommandLine), <<65535, 65528>> >> >>,
      << << U32(TagCommandLine), <<65535, 65535>> >> >> }

RECURSIVE TagLayouts(_)
TagLayouts(n) ==
    IF n = 0 THEN { <<>> }
    ELSE LET shorter == TagLayouts(n - 1)
         IN shorter \cup { l \o t : l \in shorter, t \in TagTemplates }

\* slots of boot memory modelled from info_ptr on
MemSlots == 4 * MaxTags + 4

\* boot memory holding a blob: the Multiboot2Info header, the tags, zeroes
BlobMemory(total_size, layout) ==
    [ i \in 0..(MemSlots - 1) |->
        IF i = 0 THEN Slot(total_size, 0)
        ELSE IF i <= Len(layout) THEN layout[i]
        ELSE Slot(0, 0) ]

\* total_size of a blob: it covers the tags laid out, or stops four bytes
\* short of them
TotalSizes(layout) ==
    { 8 + 8 * Len(layout) } \cup
    (IF layout = <<>> THEN {} ELSE { 4 + 8 * Len(layout) })

\* the blobs of at most n tags
Blobs(n) ==
    UNION { { BlobMemory(ts, l) : ts \in TotalSizes(l) } : l \in TagLayouts(n) }

----------------------------------------------------------------------------
(* Direct-struct protocol: the bootloader_api BootInfo (main.rs) *)

\* the framebuffer description bootloader_api hands over (stride in pixels)
ApiFrameBuffers ==
    { [width |-> 80, height |-> 25, stride |-> 80, pixel_format |-> "U8",
       bytes_per_pixel |-> 1, buffer |-> 753664],
      [width |-> 1024, height |-> 768, stride |-> 1088, pixel_format |-> "Bgr",
       bytes_per_pixel |-> 4, buffer |-> 917504],
      [width |-> 100, height |-> 10, stride |-> 100, pixel_format |-> "Other",
       bytes_per_pixel |-> 3, buffer |-> 917504] }

ApiBootInfos ==
    { [framebuffer |-> fb, rsdp_addr |-> r] :
        fb \in { None } \cup { Some(f) : f \in ApiFrameBuffers },
        r \in { None, Some(U64(983040)) } }

----------------------------------------------------------------------------
(* Entry dispatch: Spec *)

Features == { "bootloader_api", "limine", "multiboot2" }

Magics == { MULTIBOOT2_BOOTLOADER_MAGIC, 0, 732803074 }

\* architectures a Multiboot 2 loader knows: i386 (the one the header
\* declares) and MIPS32
Architectures == { MULTIBOOT2_ARCHITECTURE_I386, 4 }

NoCall == "none"

\* ret while no accessor has returned, and once one has returned v
NoReturn == <<>>
Returned(acc, v) ==
    << [ framebuffer_info |-> IF acc = "framebuffer_info" THEN v ELSE None,
         address |-> IF acc \in { "framebuffer_address", "rsdp_address" }
                     THEN v ELSE None,
         memory_regions |-> IF acc = "memory_regions" THEN v ELSE <<>>,
         command_line |-> IF acc = "command_line" THEN v ELSE None ] >>

\* accessor state is not used by the entry dispatch
ApiIdle ==
    /\ call = NoCall
    /\ want = 0
    /\ offset = U64(0)
    /\ found = None
    /\ visited = <<>>
    /\ ret = NoReturn

InitCommon ==
    /\ dispatch = "Entered"
    /\ adapter = None
    /\ serial_init = FALSE
    /\ out = <<>>
    /\ logger_set = FALSE
    /\ panic_info = None
    /\ reads = {}
    /\ seen = LimineRequest
    /\ ApiIdle

\* multiboot2 build: the loader has jumped to _start_multiboot2
InitMultiboot2 ==
    /\ feature = "multiboot2"
    /\ pc = "entry"
    /\ magic \in Magics
    /\ architecture \in Architectures
    /\ info_ptr = 65536
    /\ mem \in Blobs(1)
    /\ requests = LimineRequest
    /\ boot_info = [framebuffer |-> None, rsdp_addr |-> None]

\* limine build: the kernel image is loaded, the request records hold their
\* link-time value and the bootloader is still running
InitLimine ==
    /\ feature = "limine"
    /\ pc = "bootloader"
    /\ magic = 0
    /\ architecture = MULTIBOOT2_ARCHITECTURE_I386
    /\ info_ptr = 0
    /\ mem = BlobMemory(8, <<>>)
    /\ requests = LimineRequest
    /\ boot_info = [framebuffer |-> None, rsdp_addr |-> None]

\* bootloader_api build: the bootloader has called kernel_main
InitBootloaderApi ==
    /\ feature = "bootloader_api"
    /\ pc = "entry"
    /\ magic = 0
    /\ architecture = MULTIBOOT2_ARCHITECTURE_I386
    /\ info_ptr = 0
    /\ mem = BlobMemory(8, <<>>)
    /\ requests = LimineRequest
    /\ boot_info \in ApiBootInfos

Init ==
    /\ InitCommon
    /\ \/ InitMultiboot2
       \/ InitLimine
       \/ InitBootloaderApi

\* the Limine bootloader fulfils a request: it stores a response pointer
BootloaderRespond(req) ==
    /\ feature = "limine"
    /\ pc = "bootloader"
    /\ requests[req] = NULL
    /\ \E r \in ResponseOf(req) : requests' = [requests EXCEPT ![req] = r]
    /\ UNCHANGED <<feature, pc, dispatch, magic, architecture, info_ptr, mem, seen, boot_info,
                   adapter, serial_init, out, logger_set, panic_info, reads>>
    /\ UNCHANGED apiVars

\* the Limine bootloader jumps to _start
ControlTransfer ==
    /\ feature = "limine"
    /\ pc = "bootloader"
    /\ pc' = "entry"
    /\ UNCHANGED <<feature, dispatch, magic, architecture, info_ptr, mem, requests, seen,
                   boot_info, adapter, serial_init, out, logger_set, panic_info, reads>>
    /\ UNCHANGED apiVars

\* panic!(msg): control goes to the panic handler of the build
PanicWith(msg) ==
    /\ pc' = "panic"
    /\ panic_info' = Some(msg)

\* Multiboot2BootInfo::new
Multiboot2BootInfo_new(ptr) ==
    [kind |-> "Multiboot2BootInfo", info_ptr |-> ptr]

\* mutant: the Multiboot 1 magic word is accepted as well
MagicAccepted_Multiboot1(m) == m \in { MULTIBOOT2_BOOTLOADER_MAGIC, 732803074 }

\* the magic check of _start_multiboot2
MagicAccepted(m) == m = MULTIBOOT2_BOOTLOADER_MAGIC

\* mutant: the adapter is constructed before the magic word is looked at
start_multiboot2_ConstructFirst ==
    /\ feature = "multiboot2"
    /\ pc = "entry"
    /\ adapter' = Some(Multiboot2BootInfo_new(info_ptr))
    /\ IF ~MagicAccepted(magic)
       THEN /\ PanicWith("Invalid Multiboot 2 magic number")
            /\ UNCHANGED <<dispatch, serial_init>>
       ELSE /\ serial_init' = TRUE
            /\ dispatch' = "HandedOffToKernelInit"
            /\ pc' = "kernel_main_multiboot2"
            /\ UNCHANGED panic_info
    /\ UNCHANGED <<seen, out, logger_set, reads>>
    /\ UNCHANGED bootVars
    /\ UNCHANGED apiVars

\* _start_multiboot2(info_ptr, magic): the architecture is not an argument
start_multiboot2 ==
    /\ feature = "multiboot2"
    /\ pc = "entry"
    /\ IF ~MagicAccepted(magic)
       THEN /\ PanicWith("Invalid Multiboot 2 magic number")
            /\ UNCHANGED <<dispatch, adapter, serial_init>>
       ELSE /\ serial_init' = TRUE
            /\ adapter' = Some(Multiboot2BootInfo_new(info_ptr))
            /\ dispatch' = "HandedOffToKernelInit"
            /\ pc' = "kernel_main_multiboot2"
            /\ UNCHANGED panic_info
    /\ UNCHANGED <<seen, out, logger_set, reads>>
    /\ UNCHANGED bootVars
    /\ UNCHANGED apiVars

\* _start of the limine build: init_serial_early, parse_limine_info, then
\* kernel_main_limine
start ==
    /\ feature = "limine"
    /\ pc = "entry"
    /\ serial_init' = TRUE
    /\ \E fb_response \in ReadResponse("framebuffer"),
          rsdp_response \in ReadResponse("rsdp") :
         /\ seen' = [seen EXCEPT !.framebuffer = fb_response,
                                 !.rsdp = rsdp_response]
         /\ adapter' = Some(parse_limine_info(fb_response, rsdp_response))
    /\ dispatch' = "HandedOffToKernelInit"
    /\ pc' = "kernel_main_limine"
    /\ UNCHANGED <<out, logger_set, panic_info, reads>>
    /\ UNCHANGED bootVars
    /\ UNCHANGED apiVars

\* mutant: a missing framebuffer is tolerated (degraded continuation)
kernel_main_Degraded ==
    /\ feature = "bootloader_api"
    /\ pc = "entry"
    /\ dispatch' = "HandedOffToKernelInit"
    /\ pc' = "kernel_init_common"
    /\ UNCHANGED <<seen, adapter, serial_init, out, logger_set, reads,
                   panic_info>>
    /\ UNCHANGED bootVars
    /\ UNCHANGED apiVars

\* kernel_main of the bootloader_api build
kernel_main ==
    /\ feature = "bootloader_api"
    /\ pc = "entry"
    /\ IF boot_info.framebuffer = None
       THEN /\ PanicWith("No framebuffer provided")
            /\ UNCHANGED dispatch
       ELSE /\ dispatch' = "HandedOffToKernelInit"
            /\ pc' = "kernel_init_common"
            /\ UNCHANGED panic_info
    /\ UNCHANGED <<seen, adapter, serial_init, out, logger_set, reads>>
    /\ UNCHANGED bootVars
    /\ UNCHANGED apiVars

kernel_main_limine ==
    /\ pc = "kernel_main_limine"
    /\ pc' = "kernel_init_common"
    /\ UNCHANGED <<dispatch, seen, adapter, serial_init, out, logger_set,
                   panic_info, reads>>
    /\ UNCHANGED bootVars
    /\ UNCHANGED apiVars

kernel_main_multiboot2 ==
    /\ pc = "kernel_main_multiboot2"
    /\ pc' = "kernel_init_common"
    /\ UNCHANGED <<dispatch, seen, adapter, serial_init, out, logger_set,
                   panic_info, reads>>
    /\ UNCHANGED bootVars
    /\ UNCHANGED apiVars

LogLine(text) == [via |-> "log", text |-> text, port_ready |-> serial_init]

\* what kernel_init_common logs once the logger is installed
StartupLog ==
    << LogLine(<<"Kernel initialized with ", feature>>),
       LogLine(<<"=== UTOPIA KERNEL STARTED ===">>),
       LogLine(<<"STEP 1: LOGGING INIT OK">>),
       LogLine(<<"STEP 2: KERNEL RUNNING">>),
       LogLine(<<"STEP 3: BOOT SUCCESS ", feature>>),
       LogLine(<<"STEP 4: ALL SYSTEMS OK!">>),
       LogLine(<<"=========================">>),
       LogLine(<<"STEP 5: ENTERING MAIN LOOP...">>),
       LogLine(<<"All startup messages completed">>) >>

\* kernel_init_common: logging::init() succeeds or fails
kernel_init_common ==
    /\ pc = "kernel_init_common"
    /\ \E ok \in BOOLEAN :
         IF ok
         THEN /\ logger_set' = TRUE
              /\ out' = out \o StartupLog
              /\ pc' = "kernel_main_loop"
              /\ UNCHANGED panic_info
         ELSE /\ logger_set' \in BOOLEAN
              /\ PanicWith("Failed to initialize logger")
              /\ UNCHANGED out
    /\ UNCHANGED <<dispatch, seen, adapter, serial_init, reads>>
    /\ UNCHANGED bootVars
    /\ UNCHANGED apiVars

\* mutant: the main loop is left after one hlt
kernel_main_loop_Returns ==
    /\ pc = "kernel_main_loop"
    /\ pc' = "returned"
    /\ UNCHANGED <<dispatch, seen, adapter, serial_init, out, logger_set,
                   panic_info, reads>>
    /\ UNCHANGED bootVars
    /\ UNCHANGED apiVars

\* kernel_main_loop: one hlt
kernel_main_loop ==
    /\ pc = "kernel_main_loop"
    /\ UNCHANGED vars

\* the raw serial write of the limine and multiboot2 panic handlers
SerialPanicLine ==
    [via |-> "serial::_print", text |-> <<"KERNEL PANIC: ", panic_info[1]>>,
     port_ready |-> serial_init]

\* #[panic_handler] of multiboot2.rs, up to its hlt loop
panic_multiboot2 ==
    /\ feature = "multiboot2"
    /\ pc = "panic"
    /\ out' = Append(out, SerialPanicLine)
    /\ pc' = "panic_halt"
    /\ UNCHANGED <<dispatch, seen, adapter, serial_init, logger_set,
                   panic_info, reads>>
    /\ UNCHANGED bootVars
    /\ UNCHANGED apiVars

\* #[panic_handler] of limine_entry.rs, up to its hlt loop
panic_limine ==
    /\ feature = "limine"
    /\ pc = "panic"
    /\ out' = Append(out, SerialPanicLine)
    /\ pc' = "panic_halt"
    /\ UNCHANGED <<dispatch, seen, adapter, serial_init, logger_set,
                   panic_info, reads>>
    /\ UNCHANGED bootVars
    /\ UNCHANGED apiVars

\* #[panic_handler] of main.rs (bootloader_api build), up to its hlt loop:
\* log::error! reaches an output only through an installed logger
panic_main ==
    /\ feature = "bootloader_api"
    /\ pc = "panic"
    /\ out' = IF logger_set
              THEN Append(out, LogLine(<<"[PANIC] ", panic_info[1]>>))
              ELSE out
    /\ pc' = "panic_halt"
    /\ UNCHANGED <<dispatch, seen, adapter, serial_init, logger_set,
                   panic_info, reads>>
    /\ UNCHANGED bootVars
    /\ UNCHANGED apiVars

\* the hlt loop that ends every panic handler: one hlt
panic_halt ==
    /\ pc = "panic_halt"
    /\ UNCHANGED vars

Next ==
    \/ \E req \in { "framebuffer", "memmap", "rsdp" } : BootloaderRespond(req)
    \/ ControlTransfer
    \/ start_multiboot2
    \/ start
    \/ kernel_main
    \/ kernel_main_limine
    \/ kernel_main_multiboot2
    \/ kernel_init_common
    \/ kernel_main_loop
    \/ panic_multiboot2
    \/ panic_limine
    \/ panic_main
    \/ panic_halt

Spec == Init /\ [][Next]_vars

\* the CPU keeps executing: every step of the kernel that can be taken is
\* taken, and the bootloader does transfer control
FairSpec == Spec /\ WF_vars(Next)

----------------------------------------------------------------------------
(* The BootInfo accessors: SpecApi *)

Accessors == { "framebuffer_info", "framebuffer_address", "memory_regions",
               "rsdp_address", "command_line" }

\* adapters parse_limine_info can build
LimineEntryAdapters ==
    { parse_limine_info(f, r) :
        f \in { NULL } \cup LimineFramebufferResponse,
        r \in { NULL } \cup LimineRsdpResponse }

UsableRegion == [start |-> 0, end |-> 4096, region_type |-> "Usable"]

\* boot_info::LimineBootInfo values behind BootInfoWrapper::Limine
BootInfoLimineAdapters ==
    { [kind |-> "BootInfoWrapper::Limine",
       info |-> [framebuffer |-> a.framebuffer, rsdp |-> a.rsdp,
                 memory_map |-> m, cmdline |-> c]] :
        a \in LimineEntryAdapters,
        m \in { <<>>, <<UsableRegion>> },
        c \in { None, Some("quiet") } }

BootloaderApiAdapters ==
    { [kind |-> "BootInfoWrapper::BootloaderApi", info |-> b] :
        b \in ApiBootInfos }

IsMultiboot2(a) ==
    a.kind \in { "Multiboot2BootInfo", "BootInfoWrapper::Multiboot2" }

FeatureOf(a) ==
    CASE IsMultiboot2(a) -> "multiboot2"
      [] a.kind = "BootInfoWrapper::BootloaderApi" -> "bootloader_api"
      [] OTHER -> "limine"

InitApiCommon ==
    /\ pc = "idle"
    /\ dispatch = "HandedOffToKernelInit"
    /\ serial_init = TRUE
    /\ out = <<>>
    /\ logger_set = TRUE
    /\ panic_info = None
    /\ reads = {}
    /\ seen = LimineRequest
    /\ requests = LimineRequest
    /\ magic = 0
    /\ architecture = MULTIBOOT2_ARCHITECTURE_I386
    /\ ApiIdle

InitApi ==
    /\ InitApiCommon
    /\ \/ /\ mem \in Blobs(MaxTags)
          /\ info_ptr = 65536
          /\ adapter = Some(Multiboot2BootInfo_new(info_ptr))
          /\ boot_info = [framebuffer |-> None, rsdp_addr |-> None]
       \/ /\ mem \in Blobs(1)
          /\ info_ptr = 65536
          /\ adapter = Some([kind |-> "BootInfoWrapper::Multiboot2",
                             info |-> Multiboot2BootInfo_new(info_ptr)])
          /\ boot_info = [framebuffer |-> None, rsdp_addr |-> None]
       \/ /\ mem = BlobMemory(8, <<>>)
          /\ info_ptr = 0
          /\ adapter \in { Some(a) : a \in LimineEntryAdapters
                                        \cup BootInfoLimineAdapters }
          /\ boot_info = [framebuffer |-> None, rsdp_addr |-> None]
       \/ /\ mem = BlobMemory(8, <<>>)
          /\ info_ptr = 0
          /\ adapter \in { Some(a) : a \in BootloaderApiAdapters }
          /\ boot_info = adapter[1].info
    /\ feature = FeatureOf(adapter[1])

\* FrameBufferInfo built by BootInfoWrapper::BootloaderApi
BootloaderApi_framebuffer_info(info) ==
    IF info.framebuffer = None THEN None
    ELSE LET fb == info.framebuffer[1]
         IN Some([width |-> U64(fb.width),
                  height |-> U64(fb.height),
                  stride |-> U64(fb.stride),
                  pixel_format |->
                      CASE fb.pixel_format = "Rgb" -> "Rgb"
                        [] fb.pixel_format = "Bgr" -> "Bgr"
                        [] fb.pixel_format = "U8" -> "U8"
                        [] OTHER -> "Unknown",
                  bytes_per_pixel |-> fb.bytes_per_pixel,
                  physical_address |-> U64(fb.buffer)])

BootloaderApi_framebuffer_address(info) ==
    IF info.framebuffer = None THEN None
    ELSE Some(U64(info.framebuffer[1].buffer))

\* mutant: regions are reported as soon as the blob carries tags
Multiboot2_memory_regions_FromBlob(a) ==
    IF mem[0][1] = U32(8) THEN <<>> ELSE <<UsableRegion>>

\* Multiboot2BootInfo::memory_regions: the empty slice
Multiboot2_memory_regions(a) == <<>>

\* Multiboot2BootInfo::command_line
Multiboot2_command_line(a) == None

\* an accessor that does not walk tags: its result, from the adapter alone
Direct(a, acc) ==
    CASE a.kind = "limine_entry::LimineBootInfo" ->
           ( CASE acc = "framebuffer_info" -> LimineEntry_framebuffer_info(a)
               [] acc = "framebuffer_address" -> LimineEntry_framebuffer_address(a)
               [] acc = "memory_regions" -> <<>>
               [] acc = "rsdp_address" -> LimineEntry_rsdp_address(a)
               [] acc = "command_line" -> None )
      [] a.kind = "BootInfoWrapper::Limine" ->
           ( CASE acc = "framebuffer_info" -> BootInfoLimine_framebuffer_info(a.info)
               [] acc = "framebuffer_address" -> BootInfoLimine_framebuffer_address(a.info)
               [] acc = "memory_regions" -> a.info.memory_map
               [] acc = "rsdp_address" -> BootInfoLimine_rsdp_address(a.info)
               [] acc = "command_line" -> a.info.cmdline )
      [] a.kind = "BootInfoWrapper::BootloaderApi" ->
           ( CASE acc = "framebuffer_info" -> BootloaderApi_framebuffer_info(a.info)
               [] acc = "framebuffer_address" -> BootloaderApi_framebuffer_address(a.info)
               [] acc = "memory_regions" -> <<>>
               [] acc = "rsdp_address" -> a.info.rsdp_addr
               [] acc = "command_line" -> None )
      [] IsMultiboot2(a) ->
           ( CASE acc = "memory_regions" -> Multiboot2_memory_regions(a)
               [] acc = "command_line" -> Multiboot2_command_line(a) )

\* the accessors of Multiboot2BootInfo that go through get_tag
Walks(a, acc) ==
    /\ IsMultiboot2(a)
    /\ acc \in { "framebuffer_info", "framebuffer_address", "rsdp_address" }

\* mutant: framebuffer_info of the direct-struct adapter takes the
\* framebuffer out of the &'static mut BootInfo (take() for as_ref())
CallDirect_Takes(acc) ==
    /\ pc = "idle"
    /\ adapter # None
    /\ ~Walks(adapter[1], acc)
    /\ call' = acc
    /\ ret' = Returned(acc, Direct(adapter[1], acc))
    /\ adapter' = IF /\ adapter[1].kind = "BootInfoWrapper::BootloaderApi"
                     /\ acc = "framebuffer_info"
                  THEN Some([adapter[1] EXCEPT !.info.framebuffer = None])
                  ELSE adapter
    /\ reads' = {}
    /\ UNCHANGED <<pc, panic_info, want, offset, found, visited>>
    /\ UNCHANGED <<dispatch, seen, serial_init, out, logger_set>>
    /\ UNCHANGED bootVars

\* call of an accessor that returns without walking tags
CallDirect(acc) ==
    /\ pc = "idle"
    /\ adapter # None
    /\ ~Walks(adapter[1], acc)
    /\ call' = acc
    /\ LET r == Direct(adapter[1], acc)
       IN IF acc \in { "framebuffer_info" } /\ IsPanic(r)
          THEN /\ PanicWith(r[2])
               /\ ret' = NoReturn
          ELSE /\ ret' = Returned(acc, r)
               /\ UNCHANGED <<pc, panic_info>>
    /\ reads' = {}
    /\ UNCHANGED <<want, offset, found, visited>>
    /\ UNCHANGED <<dispatch, seen, adapter, serial_init, out, logger_set>>
    /\ UNCHANGED bootVars

----------------------------------------------------------------------------
(* Multiboot2BootInfo: for_each_tag, get_tag and the accessors on them *)

Bytes(o, n) == o..(o + n - 1)

\* info.total_size as usize
TotalSize == AsUsize(mem[0][1])

\* the Tag header at a byte offset of the blob
TagAt(o) == [tag_type |-> mem[o \div 8][1], size |-> mem[o \div 8][2]]

\* mutant: a tag of size 0, not of type 0, is taken for the end tag
IsEndTag_ZeroSize(tag) == tag.size = U32(0)

\* the end-tag test of for_each_tag
IsEndTag(tag) == tag.tag_type = U32(TagEnd)

\* tag.size + 7 in u32: the sum overflows for size > 0xFFFFFFF8
SizePlus7(size) == AddLimbs(size, U32(7))

\* ((tag.size + 7) / 8) * 8 on the (wrapped) u32 sum
RoundUp8(size) == MulLimbs(DivLimbs(SizePlus7(size).limbs, 8), 8)

\* offset += size as usize
Advance(off, size) == AddLimbs(off, AsUsize(RoundUp8(size))).limbs

\* the closure get_tag passes to for_each_tag
GetTagVisitor(result, tag_type, o) ==
    IF tag_type = U32(want) THEN Some(o) ELSE result

\* mutant: the old RSDP tag is looked for first
RsdpTagOrder_OldFirst == << TagAcpiOldRsdp, TagAcpiNewRsdp >>

\* the tag types rsdp_address looks for, in order
RsdpTagOrder == << TagAcpiNewRsdp, TagAcpiOldRsdp >>

FirstWanted(acc) ==
    IF acc = "rsdp_address" THEN RsdpTagOrder[1] ELSE TagFramebufferInfo

\* get_tag enters for_each_tag: total_size is read, the cursor starts at 8
EnterWalk(tag_type) ==
    /\ want' = tag_type
    /\ found' = None
    /\ visited' = <<>>
    /\ offset' = U64(8)
    /\ pc' = "for_each_tag"

\* call of an accessor of Multiboot2BootInfo that goes through get_tag; the
\* caller still holds the result of an immediately preceding call of the
\* same accessor
CallWalk(acc) ==
    /\ pc = "idle"
    /\ adapter # None
    /\ Walks(adapter[1], acc)
    /\ call' = acc
    /\ ret' = IF call = acc THEN ret ELSE NoReturn
    /\ reads' = Bytes(0, 4)
    /\ EnterWalk(FirstWanted(acc))
    /\ UNCHANGED <<dispatch, seen, adapter, serial_init, out, logger_set,
                   panic_info>>
    /\ UNCHANGED bootVars

\* one iteration of the while loop of for_each_tag
for_each_tag ==
    /\ pc = "for_each_tag"
    /\ Less(offset, TotalSize)
    /\ LET o == ToNat(offset)
           tag == TagAt(o)
       IN IF IsEndTag(tag)
          THEN /\ pc' = "get_tag"
               /\ reads' = reads \cup Bytes(o, 4)
               /\ UNCHANGED <<offset, found, visited, panic_info>>
          ELSE /\ reads' = reads \cup Bytes(o, 8)
               /\ found' = GetTagVisitor(found, tag.tag_type, o)
               /\ visited' = IF Len(visited) < MemSlots
                             THEN Append(visited, o) ELSE visited
               /\ \/ /\ SizePlus7(tag.size).carry = 0
                     /\ offset' = Advance(offset, tag.size)
                     /\ UNCHANGED <<pc, panic_info>>
                  \/ \* build without overflow checks: the sum wraps
                     /\ SizePlus7(tag.size).carry = 1
                     /\ offset' = Advance(offset, tag.size)
                     /\ UNCHANGED <<pc, panic_info>>
                  \/ \* build with overflow checks
                     /\ SizePlus7(tag.size).carry = 1
                     /\ PanicWith("attempt to add with overflow")
                     /\ UNCHANGED offset
    /\ UNCHANGED <<call, want, ret>>
    /\ UNCHANGED <<dispatch, seen, adapter, serial_init, out, logger_set>>
    /\ UNCHANGED bootVars

\* the loop condition of for_each_tag fails: for_each_tag returns
for_each_tag_exit ==
    /\ pc = "for_each_tag"
    /\ ~Less(offset, TotalSize)
    /\ pc' = "get_tag"
    /\ UNCHANGED <<call, want, offset, found, visited, ret, reads, panic_info>>
    /\ UNCHANGED <<dispatch, seen, adapter, serial_init, out, logger_set>>
    /\ UNCHANGED bootVars

\* the FramebufferTag at byte offset o of the blob
FramebufferTagAt(o) ==
    LET i == o \div 8
    IN [addr |-> mem[i + 1][2] \o mem[i + 1][1],
        pitch |-> mem[i + 2][1],
        width |-> mem[i + 2][2],
        height |-> mem[i + 3][1],
        bpp |-> mem[i + 3][2][2] % 256,
        framebuffer_type |-> (mem[i + 3][2][2] \div 256) % 256]

\* mutant: the pitch is divided by the bits per pixel
Multiboot2Stride_ByBits(fb_tag, bytes_per_pixel) ==
    AsUsize(DivLimbs(fb_tag.pitch, fb_tag.bpp))

\* stride: (fb_tag.pitch / bytes_per_pixel as u32) as usize
Multiboot2Stride(fb_tag, bytes_per_pixel) ==
    AsUsize(DivLimbs(fb_tag.pitch, bytes_per_pixel))

\* Multiboot2BootInfo::framebuffer_info once get_tag has returned
Multiboot2_framebuffer_info(tag_ptr) ==
    IF tag_ptr = None THEN None
    ELSE LET fb_tag == FramebufferTagAt(tag_ptr[1])
             bytes_per_pixel == fb_tag.bpp \div 8
         IN IF bytes_per_pixel = 0
            THEN Panicked("attempt to divide by zero")
            ELSE Some([width |-> AsUsize(fb_tag.width),
                       height |-> AsUsize(fb_tag.height),
                       stride |-> Multiboot2Stride(fb_tag, bytes_per_pixel),
                       pixel_format |-> "Rgb",
                       bytes_per_pixel |-> bytes_per_pixel,
                       physical_address |-> fb_tag.addr])

\* Multiboot2BootInfo::framebuffer_address once get_tag has returned
Multiboot2_framebuffer_address(tag_ptr) ==
    IF tag_ptr = None THEN None
    ELSE Some(FramebufferTagAt(tag_ptr[1]).addr)

\* rsdp_tag.rsdp.as_ptr() as u64: the address eight bytes into the tag
RsdpPointer(tag_ptr) == U64(info_ptr + tag_ptr[1] + 8)

\* bytes of the blob an accessor reads in the tag get_tag handed it
FieldReads(acc, tag_ptr) ==
    IF tag_ptr = None \/ acc = "rsdp_address" THEN {}
    ELSE IF acc = "framebuffer_address" THEN Bytes(tag_ptr[1] + 8, 8)
    ELSE IF FramebufferTagAt(tag_ptr[1]).bpp \div 8 = 0
    THEN Bytes(tag_ptr[1] + 16, 13)
    ELSE Bytes(tag_ptr[1] + 8, 21)

\* get_tag has returned to the accessor: the accessor finishes, or
\* rsdp_address falls back to the next tag type
get_tag ==
    /\ pc = "get_tag"
    /\ IF call = "rsdp_address" /\ found = None /\ want = RsdpTagOrder[1]
       THEN /\ EnterWalk(RsdpTagOrder[2])
            /\ reads' = reads \cup Bytes(0, 4)
            /\ UNCHANGED <<ret, panic_info>>
       ELSE LET r == CASE call = "framebuffer_info" ->
                            Multiboot2_framebuffer_info(found)
                       [] call = "framebuffer_address" ->
                            Multiboot2_framebuffer_address(found)
                       [] call = "rsdp_address" ->
                            IF found = None THEN None
                            ELSE Some(RsdpPointer(found))
            IN /\ reads' = reads \cup FieldReads(call, found)
               /\ IF call = "framebuffer_info" /\ IsPanic(r)
                  THEN /\ PanicWith(r[2])
                       /\ UNCHANGED ret
                  ELSE /\ ret' = Returned(call, r)
                       /\ pc' = "idle"
                       /\ UNCHANGED panic_info
               /\ UNCHANGED <<want, offset, found, visited>>
    /\ UNCHANGED call
    /\ UNCHANGED <<dispatch, seen, adapter, serial_init, out, logger_set>>
    /\ UNCHANGED bootVars

NextApi ==
    \/ \E acc \in Accessors : CallDirect(acc)
    \/ \E acc \in Accessors : CallWalk(acc)
    \/ for_each_tag
    \/ for_each_tag_exit
    \/ get_tag
    \/ panic_multiboot2
    \/ panic_limine
    \/ panic_halt

SpecApi == InitApi /\ [][NextApi]_vars

\* a running accessor keeps running: the CPU executes its next step
FairSpecApi == SpecApi /\ WF_vars(for_each_tag \/ for_each_tag_exit \/ get_tag)

----------------------------------------------------------------------------
(* The tag stream of a blob, in unbounded arithmetic *)

\* round_up(size, 8) of a u32 size, computed in 64 bits
RoundUp(size) ==
    MulLimbs(DivLimbs(AddLimbs(AsUsize(size), U64(7)).limbs, 8), 8)

\* The tags met from offset o by repeatedly adding round_up(size, 8), and
\* how the stream stops: at an end tag, at total_size, or never.
RECURSIVE StreamFrom(_, _)
StreamFrom(o, fuel) ==
    IF ~Less(o, TotalSize) THEN [tags |-> <<>>, stop |-> "total_size"]
    ELSE IF fuel = 0 THEN [tags |-> <<>>, stop |-> "never"]
    ELSE LET tag == TagAt(ToNat(o))
         IN IF tag.tag_type = U32(TagEnd)
            THEN [tags |-> <<>>, stop |-> "end"]
            ELSE LET rest == StreamFrom(AddLimbs(o, RoundUp(tag.size)).limbs,
                                        fuel - 1)
                 IN [tags |-> <<ToNat(o)>> \o rest.tags, stop |-> rest.stop]

Stream == StreamFrom(U64(8), MemSlots)

EndTagReachable == Stream.stop = "end"

TagsOfType(t) ==
    { Stream.tags[i] : i \in { j \in 1..Len(Stream.tags) :
                                 TagAt(Stream.tags[j]).tag_type = U32(t) } }

OnMultiboot2 == adapter # None /\ IsMultiboot2(adapter[1])

HasReturned(acc) == pc = "idle" /\ call = acc /\ ret # NoReturn

----------------------------------------------------------------------------
(* Claims *)

\* C1: on a blob whose end tag is reachable from offset 8 by adding
\* round_up(size, 8) below total_size, for_each_tag terminates (every
\* iteration either leaves the loop or moves the cursor strictly forward,
\* and the loop runs only below total_size) and, when it returns, it has
\* invoked the visitor exactly once, in stream order, on each tag before
\* the first end tag and on nothing else.
C1_WalkVisitsTagsBeforeEnd ==
    /\ [][ (pc = "for_each_tag" /\ EndTagReachable)
            => \/ pc' = "get_tag"
               \/ /\ pc' = "for_each_tag"
                  /\ Less(offset, offset')
                  /\ Less(offset, TotalSize) ]_vars
    /\ [](pc = "get_tag" /\ EndTagReachable => visited = Stream.tags)

C1_Witness ==
    /\ pc = "get_tag"
    /\ EndTagReachable
    /\ Len(Stream.tags) >= 2
    /\ visited = Stream.tags

\* C2: every iteration of for_each_tag that visits a tag of declared size
\* s moves the cursor to offset + ((s + 7) / 8) * 8, computed without
\* wrap-around, for every 32-bit s.
C2_AdvanceIsRoundUp ==
    [][ ( /\ pc = "for_each_tag"
          /\ Less(offset, TotalSize)
          /\ TagAt(ToNat(offset)).tag_type # U32(TagEnd) )
        => offset' = AddLimbs(offset, RoundUp(TagAt(ToNat(offset)).size)).limbs
      ]_vars

\* C3: rsdp_address returns the address of a new-format RSDP tag (type 15)
\* when the stream has one, whatever the order of the tags; otherwise the
\* address of an old-format tag (type 14) when it has one; otherwise None.
C3_RsdpPrefersNew ==
    (OnMultiboot2 /\ HasReturned("rsdp_address")) =>
        LET news == TagsOfType(TagAcpiNewRsdp)
            olds == TagsOfType(TagAcpiOldRsdp)
        IN IF news # {}
           THEN \E o \in news : ret = Returned(call, Some(U64(info_ptr + o + 8)))
           ELSE IF olds # {}
           THEN \E o \in olds : ret = Returned(call, Some(U64(info_ptr + o + 8)))
           ELSE ret = Returned(call, None)

\* an old tag, then a new tag, then an old tag again
C3_Witness ==
    /\ OnMultiboot2
    /\ HasReturned("rsdp_address")
    /\ \E n \in TagsOfType(TagAcpiNewRsdp) :
         /\ \E o \in TagsOfType(TagAcpiOldRsdp) : o < n
         /\ \E o \in TagsOfType(TagAcpiOldRsdp) : n < o
         /\ ret = Returned(call, Some(U64(info_ptr + n + 8)))


\* the pixel format the heuristic is stated to give
StatedPixelFormat(fb) ==
    IF fb.memory_model = 1 /\ fb.red_mask_size = 8 /\ fb.red_mask_shift = 16
    THEN "Rgb"
    ELSE IF fb.memory_model = 1 /\ fb.red_mask_shift = 0
    THEN "Bgr"
    ELSE "Unknown"

OnHandshake ==
    /\ adapter # None
    /\ adapter[1].kind \in { "limine_entry::LimineBootInfo",
                             "BootInfoWrapper::Limine" }

\* the framebuffer record a handshake adapter holds
HandshakeFramebuffer ==
    IF adapter[1].kind = "BootInfoWrapper::Limine"
    THEN adapter[1].info.framebuffer
    ELSE adapter[1].framebuffer

\* C4: the pixel format framebuffer_info of the handshake adapter returns
\* is RGB for memory_model 1, red_mask_size 8, red_mask_shift 16, BGR for
\* memory_model 1, red_mask_shift 0, and Unknown for every other record.
C4_PixelHeuristic ==
    ( /\ OnHandshake
      /\ HasReturned("framebuffer_info")
      /\ ret[1].framebuffer_info # None )
    => ret[1].framebuffer_info[1].pixel_format
         = StatedPixelFormat(HandshakeFramebuffer[1])

\* C5: in the handshake adapter built by parse_limine_info, a framebuffer
\* request left null by the bootloader makes framebuffer_info and
\* framebuffer_address None, a null RSDP request makes rsdp_address None,
\* and the null responses lead to no panic.
C5_NullResponseIsAbsent ==
    (feature = "limine" /\ adapter # None) =>
        /\ requests.framebuffer = NULL
             => /\ LimineEntry_framebuffer_info(adapter[1]) = None
                /\ LimineEntry_framebuffer_address(adapter[1]) = None
        /\ requests.rsdp = NULL
             => LimineEntry_rsdp_address(adapter[1]) = None
        /\ (requests.framebuffer = NULL \/ requests.rsdp = NULL)
             => /\ pc # "entry"
                /\ panic_info \in { None, Some("Failed to initialize logger") }

C5_Witness ==
    /\ feature = "limine"
    /\ adapter # None
    /\ requests.framebuffer = NULL
    /\ requests.rsdp = NULL
    /\ requests.memmap # NULL
    /\ pc = "kernel_main_limine"

\* C6: _start_multiboot2 called with a magic word other than 0x36d76289
\* goes to the panic handler and its halt loop; no Multiboot2BootInfo is
\* ever constructed, no byte is read through the blob pointer and
\* kernel_main_multiboot2 is never reached.
C6_BadMagicHalts ==
    /\ []( (feature = "multiboot2" /\ magic # MULTIBOOT2_BOOTLOADER_MAGIC)
           => /\ adapter = None
              /\ reads = {}
              /\ dispatch = "Entered"
              /\ pc \in { "entry", "panic", "panic_halt" } )
    /\ [][ ( /\ feature = "multiboot2"
             /\ magic # MULTIBOOT2_BOOTLOADER_MAGIC
             /\ pc \in { "entry", "panic", "panic_halt" } )
           => pc' = CASE pc = "entry" -> "panic"
                      [] pc = "panic" -> "panic_halt"
                      [] OTHER -> "panic_halt" ]_vars

C6_Witness ==
    /\ feature = "multiboot2"
    /\ magic = 732803074
    /\ pc = "panic_halt"
    /\ panic_info = Some("Invalid Multiboot 2 magic number")

\* the geometry a protocol supplies: a row of `width` pixels fits in the
\* pitch (in the stride, for the direct-struct protocol)
SuppliedGeometry ==
    IF IsMultiboot2(adapter[1])
    THEN LET fb_tag == FramebufferTagAt(found[1])
         IN GreaterEq(AsUsize(fb_tag.pitch),
                      MulLimbs(AsUsize(fb_tag.width), (fb_tag.bpp + 7) \div 8))
    ELSE IF OnHandshake
    THEN LET fb == HandshakeFramebuffer[1]
         IN fb.pitch >= fb.width * ((fb.bpp + 7) \div 8)
    ELSE LET fb == adapter[1].info.framebuffer[1]
         IN fb.stride >= fb.width

FirstFramebuffer(fb_response) ==
    IF fb_response = NULL THEN NULL
    ELSE IF fb_response[1].framebuffer_count = 0 THEN NULL
    ELSE IF fb_response[1].framebuffers = NULL THEN NULL
    ELSE fb_response[1].framebuffers[1][1]

\* C8: parse_limine_info yields a framebuffer exactly when the framebuffer
\* response pointer it reads is non-null, framebuffer_count > 0, the array
\* pointer is non-null and the first entry is non-null, and then it is the
\* first entry; otherwise the framebuffer is None; in every case _start
\* hands off to kernel_main_limine and the parse leads to no panic.
C8_FirstFramebufferOrNone ==
    (feature = "limine" /\ adapter # None) =>
        /\ adapter[1].framebuffer = FirstFramebuffer(seen.framebuffer)
        /\ dispatch = "HandedOffToKernelInit"
        /\ pc \in { "kernel_main_limine", "kernel_init_common",
                    "kernel_main_loop", "panic", "panic_halt" }
        /\ panic_info \in { None, Some("Failed to initialize logger") }

\* two framebuffers reported: the first one is taken
C8_Witness ==
    /\ feature = "limine"
    /\ pc = "kernel_main_limine"
    /\ seen.framebuffer # NULL
    /\ seen.framebuffer[1].framebuffer_count = 2
    /\ adapter[1].framebuffer # None
    /\ adapter[1].framebuffer[1] # OtherFramebuffer

\* C9: the entry dispatch goes from Entered to HandedOffToKernelInit and
\* never back, no entry function returns, and once handed off the kernel
\* ends up for ever in the main hlt loop or in the halt loop of the panic
\* handler.
C9_DispatchNeverReturns ==
    /\ [][dispatch = "HandedOffToKernelInit"
            => dispatch' = "HandedOffToKernelInit"]_vars
    /\ [](pc # "returned")
    /\ (dispatch = "HandedOffToKernelInit"
          ~> [](pc \in { "kernel_main_loop", "panic_halt" }))

C9_Witness ==
    /\ dispatch = "HandedOffToKernelInit"
    /\ pc = "kernel_main_loop"
    /\ feature = "multiboot2"

\* C10: every fatal condition of every build ends in the halt loop with a
\* diagnostic emitted by a raw serial write, and the halt loop is never
\* left.
C10_FatalPolicy ==
    /\ [](pc = "panic_halt"
            => \E i \in 1..Len(out) :
                 /\ out[i].via = "serial::_print"
                 /\ out[i].text = <<"KERNEL PANIC: ", panic_info[1]>>)
    /\ [][pc = "panic_halt" => pc' = "panic_halt"]_vars

StatedFrameBufferInfo(o) ==
    LET fb_tag == FramebufferTagAt(o)
        bytes_per_pixel == fb_tag.bpp \div 8
    IN [width |-> AsUsize(fb_tag.width),
        height |-> AsUsize(fb_tag.height),
        stride |-> IF bytes_per_pixel = 0 THEN U64(0)
                   ELSE AsUsize(DivLimbs(fb_tag.pitch, bytes_per_pixel)),
        pixel_format |-> "Rgb",
        bytes_per_pixel |-> bytes_per_pixel,
        physical_address |-> fb_tag.addr]

\* framebuffer tags the walk has visited
VisitedFramebufferTags ==
    { visited[i] : i \in { j \in 1..Len(visited) :
                            TagAt(visited[j]).tag_type = U32(TagFramebufferInfo) } }

\* C12: when the walk of framebuffer_info has reached a framebuffer tag,
\* framebuffer_info returns Some of the FrameBufferInfo stated for a
\* framebuffer tag it reached: RGB whatever the type byte, bytes_per_pixel
\* = bpp / 8, stride = pitch / bytes_per_pixel, width, height and address
\* copied from the tag.
C12_FramebufferInfoFromTag ==
    [][ ( /\ pc = "get_tag"
          /\ call = "framebuffer_info"
          /\ VisitedFramebufferTags # {} )
        => /\ pc' = "idle"
           /\ \E o \in VisitedFramebufferTags :
                ret' = Returned(call, Some(StatedFrameBufferInfo(o))) ]_vars

\* C13: no step of any accessor changes boot memory, the request records,
\* the handed-over structure or the adapter, and an accessor called again
\* right after it returned returns the same result.
C13_AccessorsArePure ==
    /\ [][UNCHANGED <<mem, info_ptr, requests, boot_info, adapter>>]_vars
    /\ [][ (pc' = "idle" /\ call' = call /\ ret # NoReturn) => ret' = ret ]_vars

\* the second call of framebuffer_info on a blob with a framebuffer tag is
\* about to return what the first call returned
C13_Witness ==
    /\ pc = "get_tag"
    /\ call = "framebuffer_info"
    /\ found # None
    /\ ret # NoReturn
    /\ ret = Returned(call, Multiboot2_framebuffer_info(found))

\* C14: in the bootloader_api build, kernel_main called without a
\* framebuffer panics, ends for ever in the halt loop of the panic handler
\* and never reaches kernel_init_common; called with a framebuffer it goes
\* on to kernel_init_common.
C14_FramebufferRequired ==
    /\ []( (feature = "bootloader_api" /\ boot_info.framebuffer = None)
           => /\ pc \in { "entry", "panic", "panic_halt" }
              /\ dispatch = "Entered"
              /\ ~logger_set )
    /\ [][ (feature = "bootloader_api" /\ pc = "entry")
           => IF boot_info.framebuffer = None
              THEN /\ pc' = "panic"
                   /\ panic_info' = Some("No framebuffer provided")
              ELSE /\ pc' = "kernel_init_common"
                   /\ dispatch' = "HandedOffToKernelInit" ]_vars
    /\ ( (feature = "bootloader_api" /\ boot_info.framebuffer = None)
           ~> [](pc = "panic_halt") )
    /\ ( (feature = "bootloader_api" /\ boot_info.framebuffer # None)
           ~> (dispatch = "HandedOffToKernelInit") )

C14_Witness ==
    /\ feature = "bootloader_api"
    /\ boot_info.framebuffer = None
    /\ pc = "panic_halt"
    /\ panic_info = Some("No framebuffer provided")

\* the first framebuffer tag the walk has visited
FirstVisitedFramebufferTag ==
    LET fbs == { j \in 1..Len(visited) :
                   TagAt(visited[j]).tag_type = U32(TagFramebufferInfo) }
    IN visited[CHOOSE j \in fbs : \A k \in fbs : j <= k]

\* C15: when the stream holds framebuffer tags, framebuffer_address
\* returns the address of the first of them in stream order and
\* framebuffer_info the FrameBufferInfo of the first of them.
C15_FirstFramebufferTag ==
    (OnMultiboot2 /\ VisitedFramebufferTags # {}) =>
        /\ HasReturned("framebuffer_address")
             => ret = Returned(call,
                         Some(FramebufferTagAt(FirstVisitedFramebufferTag).addr))
        /\ HasReturned("framebuffer_info")
             => ret = Returned(call,
                         Some(StatedFrameBufferInfo(FirstVisitedFramebufferTag)))

\* C16 as stated: _start_multiboot2 constructs the adapter and hands off
\* only when both the magic word and the architecture field match their
\* constants; a correct magic word with a wrong architecture is rejected.
C16_MagicAndArchitectureGate ==
    (feature = "multiboot2" /\ adapter # None) =>
        /\ magic = MULTIBOOT2_BOOTLOADER_MAGIC
        /\ architecture = MULTIBOOT2_ARCHITECTURE_I386

\* C16 amended: _start_multiboot2 constructs the adapter and hands off
\* only after the magic word has matched 0x36d76289, and with a matching
\* magic word it does so whatever the architecture.
C16_MagicGate ==
    /\ []( (feature = "multiboot2" /\ adapter # None)
           => /\ magic = MULTIBOOT2_BOOTLOADER_MAGIC
              /\ dispatch = "HandedOffToKernelInit" )
    /\ [][ ( /\ feature = "multiboot2"
             /\ pc = "entry"
             /\ magic = MULTIBOOT2_BOOTLOADER_MAGIC )
           => /\ adapter' = Some(Multiboot2BootInfo_new(info_ptr))
              /\ pc' = "kernel_main_multiboot2" ]_vars

\* accepted with the right magic word and the wrong architecture
C16_Witness ==
    /\ feature = "multiboot2"
    /\ magic = MULTIBOOT2_BOOTLOADER_MAGIC
    /\ architecture # MULTIBOOT2_ARCHITECTURE_I386
    /\ adapter # None
    /\ pc = "kernel_main_multiboot2"

\* C17: every byte for_each_tag and the accessors read through the blob
\* pointer lies at an offset in [0, total_size); a tag header is read at
\* offset o only if o + 8 <= total_size; the fields of a framebuffer tag
\* are read only inside the size the tag declares.
C17_ReadsInsideBlob ==
    /\ [](OnMultiboot2 => \A b \in reads : Less(U64(b), TotalSize))
    /\ []( (pc = "for_each_tag" /\ Less(offset, TotalSize))
           => GreaterEq(TotalSize, AddLimbs(offset, U64(8)).limbs) )
    /\ []( ( /\ pc = "get_tag"
             /\ call \in { "framebuffer_info", "framebuffer_address" }
             /\ found # None )
           => \A b \in FieldReads(call, found) :
                Less(U64(b - found[1]), AsUsize(TagAt(found[1]).size)) )

\* C18: the bootloader writes the response pointers only before control
\* transfer, the kernel reads them only after it, and every read observes
\* the value the bootloader last wrote (null only if it wrote nothing).
C18_ReadsSeeBootloaderWrites ==
    /\ [][requests' # requests => (pc = "bootloader" /\ adapter = None)]_vars
    /\ [][ (feature = "limine" /\ (seen' # seen \/ adapter' # adapter))
           => (pc = "entry" /\ requests' = requests) ]_vars
    /\ []( (feature = "limine" /\ adapter # None)
           => /\ seen.framebuffer = requests.framebuffer
              /\ seen.rsdp = requests.rsdp )

\* C19: for_each_tag terminates on every blob: every iteration that visits
\* a tag and stays in the loop moves the cursor strictly forward, also for
\* a tag of non-zero type whose declared size is 0.
C19_WalkAlwaysAdvances ==
    [][ ( /\ pc = "for_each_tag"
          /\ Less(offset, TotalSize)
          /\ TagAt(ToNat(offset)).tag_type # U32(TagEnd)
          /\ pc' = "for_each_tag" )
        => Less(offset, offset') ]_vars

\* C20: framebuffer_info never panics: for every bits-per-pixel value the
\* divisor of the stride is non-zero, and every call of framebuffer_info
\* returns Some or None.
C20_NoDivisionByZero ==
    /\ [](panic_info # Some("attempt to divide by zero"))
    /\ [][ (call' = "framebuffer_info" /\ pc' # "for_each_tag"
              /\ pc \in { "idle", "get_tag" })
           => (pc' = "idle" /\ ret' # NoReturn) ]_vars

\* what framebuffer_address gives on the adapter of the call in progress
\* (for the tagged-stream adapter, on the tag get_tag has found)
AddressOfSameFramebuffer ==
    IF IsMultiboot2(adapter[1])
    THEN Multiboot2_framebuffer_address(found)
    ELSE Direct(adapter[1], "framebuffer_address")

\* C21: on every adapter and boot memory, framebuffer_info returns, it is
\* Some exactly when framebuffer_address is Some, and then its
\* physical_address is the address framebuffer_address gives.
C21_AddressAgreesWithInfo ==
    [][ ( /\ call' = "framebuffer_info"
          /\ pc \in { "idle", "get_tag" }
          /\ pc' # "for_each_tag" )
        => /\ pc' = "idle"
           /\ ret' # NoReturn
           /\ (ret'[1].framebuffer_info = None) = (AddressOfSameFramebuffer = None)
           /\ AddressOfSameFramebuffer # None
                => ret'[1].framebuffer_info[1].physical_address
                     = AddressOfSameFramebuffer[1] ]_vars

\* C22: in the multiboot2 and limine builds every diagnostic written to
\* the serial port, the panic diagnostic of a rejected magic word
\* included, is written after init_serial_early has run.
C22_SerialInitBeforeOutput ==
    /\ []( feature \in { "multiboot2", "limine" }
           => \A i \in 1..Len(out) : out[i].port_ready )
    /\ [][ (feature \in { "multiboot2", "limine" } /\ out' # out)
           => serial_init ]_vars

\* C23: on every framebuffer record, framebuffer_info of
\* limine_entry::LimineBootInfo and framebuffer_info of
\* boot_info::LimineBootInfo (behind BootInfoWrapper::Limine) return the
\* same FrameBufferInfo, in particular the same pixel_format.
C23_HandshakeClassifiersAgree ==
    ( /\ OnHandshake
      /\ HasReturned("framebuffer_info")
      /\ HandshakeFramebuffer # None )
    => LET record == [framebuffer |-> HandshakeFramebuffer]
       IN /\ ret = Returned(call, LimineEntry_framebuffer_info(record))
          /\ ret = Returned(call, BootInfoLimine_framebuffer_info(record))

====
